---- MODULE Spec2Model ----
(***************************************************************************)
(* A model of mirror-mirror's type graph (type_info/graph.rs), of the      *)
(* ordering of the dynamic Value (value.rs) and of the patch / to_value /  *)
(* from_reflect operations of Value, TupleStructValue and Box<T>.           *)
(***************************************************************************)
EXTENDS Integers, Sequences, FiniteSets, TLC

VARIABLES
    hasher,     \* the function TypeId -> u64 computed by NodeId::new
    map,        \* TypeGraph.map : NodeId -> absent | Some(None) | Some(Some(node))
    stack,      \* the get_or_build_node_with calls whose closure is running
    ret,        \* the NodeId returned by the last outermost build (0: none yet)
    lastCall,   \* history: the last call of get_or_build_node_with
    returned,   \* history: the NodeId the completed call for each type returned (0: none)
    ran,        \* history: how many times the builder closure of each type was run
    owner,      \* history: the type whose call inserted the entry of each NodeId
    root,       \* history: the type given to the current outermost build
    fresh,      \* history: the graph was empty when that build started
    steps,      \* history: the nested steps of the current outermost build
    panicked,   \* TypeGraph::get hit its expect(ERROR)
    va, vb, vc, \* three Values handed to ==, cmp
    out,        \* what the comparisons returned
    target,     \* the reflected object patch, to_value and from_reflect act on
    before,     \* the target before the last operation
    arg,        \* the &dyn Reflect handed to the last operation
    res,        \* what the last from_reflect returned
    op,         \* the last operation
    live,       \* the live value key paths are resolved in
    liveBefore, \* the live value before the last operation
    keyPath,    \* the key path
    found,      \* what the value resolver returned
    typeAt,     \* what the type resolver returned
    assigned,   \* the value last assigned through the path
    text,       \* the key path as last displayed
    parsed,     \* what parsing that text gave
    pathOp,     \* the last key path operation
    slice,      \* the &[NamedFieldNode] last handed to a node's new
    built       \* the node that call built

graphVars == <<hasher, map, stack, ret, lastCall, returned, ran,
               owner, root, fresh, steps, panicked>>

ordVars == <<va, vb, vc, out>>

patchVars == <<target, before, arg, res, op>>

pathVars ==
    <<live, liveBefore, keyPath, found, typeAt, assigned, text, parsed, pathOp>>

nodeVars == <<slice, built>>

vars == <<graphVars, ordVars, patchVars, pathVars, nodeVars>>

(***************************************************************************)
(* The types of the model: scalars, three recursive families (Node through *)
(* Box, A/B mutually through Box, Tree through Vec), a map and a struct.    *)
(***************************************************************************)
ScalarTypes == {"i32", "String"}
StructTypes == {"Node", "A", "B", "Tree", "Ghost"}
BoxTypes    == {"Box<Node>", "Box<A>", "Box<B>"}
ListTypes   == {"Vec<Tree>"}
ArrayTypes  == {"[i32; 2]"}
MapTypes    == {"Map<String,Node>"}

Types ==
    ScalarTypes \cup StructTypes \cup BoxTypes \cup ListTypes \cup ArrayTypes
    \cup MapTypes

TypeOrder == <<"i32", "String", "Node", "A", "B", "Tree", "Ghost",
               "Box<Node>", "Box<A>", "Box<B>", "Vec<Tree>", "Map<String,Node>",
               "[i32; 2]">>

\* TypeId::of::<T>(): one identity per type
TypeIdOf(t) == CHOOSE i \in 1..Len(TypeOrder) : TypeOrder[i] = t

NodeIds == 1..Len(TypeOrder)

\* the types whose build goes through get_or_build_node_with
Kind(t) ==
    CASE t \in ScalarTypes -> "Scalar"
      [] t \in StructTypes -> "Struct"
      [] t \in BoxTypes    -> "Box"
      [] t \in ListTypes   -> "List"
      [] t \in ArrayTypes  -> "Array"
      [] t \in MapTypes    -> "Map"

\* The types on which the builder closure of t calls build, in call order: a
\* field's type per NamedFieldNode::new, the element type for ListNode::new
\* and ArrayNode::new, the key then the value type for MapNode::new; for
\* Box<T> the inner T.
Children(t) ==
    CASE t = "Node"             -> <<"i32", "Box<Node>">>
      [] t = "A"                -> <<"Box<B>", "String">>
      [] t = "B"                -> <<"Box<A>", "Ghost">>
      [] t = "Tree"             -> <<"String", "Vec<Tree>">>
      [] t = "Ghost"            -> <<"i32">>
      [] t = "Box<Node>"        -> <<"Node">>
      [] t = "Box<A>"           -> <<"A">>
      [] t = "Box<B>"           -> <<"B">>
      [] t = "Vec<Tree>"        -> <<"Tree">>
      [] t = "[i32; 2]"         -> <<"i32">>
      [] t = "Map<String,Node>" -> <<"String", "Node">>
      [] OTHER                  -> <<>>

\* a Box<T> that goes through get_or_build_node_with as a type of its own
BoxBuildTarget_OwnEntry(t) == t

\* impl Typed for Box<T>: build is T::build, nothing is inserted for the Box
RECURSIVE BoxBuildTarget(_)
BoxBuildTarget(t) ==
    IF Kind(t) = "Box" THEN BoxBuildTarget(Children(t)[1]) ELSE t

\* NodeId::new::<T>(): the AHasher digest of TypeId::of::<T>()
NodeIdNew(t) == hasher[TypeIdOf(t)]

\* The digests considered: one without collision, one where Ghost and String
\* have the same digest.
InjectiveHash == [i \in NodeIds |-> i]
CollidingHash == [i \in NodeIds |->
                    IF i = TypeIdOf("Ghost") THEN TypeIdOf("String") ELSE i]
HashFns == {InjectiveHash, CollidingHash}

Absent   == [st |-> "Absent",   kind |-> "",  type_name |-> "", ids |-> <<>>]
Reserved == [st |-> "Reserved", kind |-> "",  type_name |-> "", ids |-> <<>>]

\* the closure's node is dropped and the entry stays as it was reserved
TypeNode_NotStored(t, ids) ==
    [st |-> "Reserved", kind |-> "", type_name |-> "", ids |-> <<>>]

\* f(self).into(): the TypeNode the closure returns from the ids it collected
TypeNode(t, ids) ==
    [st |-> "Resolved", kind |-> Kind(t), type_name |-> t, ids |-> ids]

\* the match on self.map.get(&id) of get_or_build_node_with
MapGet_NoMemo(m, id) ==
    IF m[id].st = "Resolved" THEN "None" ELSE
    IF m[id].st = "Reserved" THEN "Some(None)" ELSE "None"

MapGet_NoReserve(m, id) ==
    IF m[id].st = "Resolved" THEN "Some(Some)" ELSE "None"

MapGet(m, id) ==
    CASE m[id].st = "Resolved" -> "Some(Some)"
      [] m[id].st = "Reserved" -> "Some(None)"
      [] m[id].st = "Absent"   -> "None"

MaxDepth == 8

NoCall == [ty |-> "", id |-> 0, hit |-> FALSE, known |-> FALSE]

GraphInit ==
    /\ hasher \in HashFns
    /\ map = [i \in NodeIds |-> Absent]
    /\ stack = <<>>
    /\ ret = 0
    /\ lastCall = NoCall
    /\ returned = [t \in Types |-> 0]
    /\ ran = [t \in Types |-> 0]
    /\ owner = [i \in NodeIds |-> ""]
    /\ root = ""
    /\ fresh = FALSE
    /\ steps = 0
    /\ panicked = FALSE

\* The caller receives id: the closure of the frame on top of the stack s
\* stores it in the node under construction, an outermost caller keeps it.
Deliver(s, id) ==
    IF s = <<>> THEN s
    ELSE [s EXCEPT ![Len(s)].ids = Append(@, id)]

\* T::build(graph) called with the frames s below it: Box<T> forwards to its
\* inner type, every other type calls get_or_build_node_with::<T>
CallBuild(t0, s) ==
    LET t  == BoxBuildTarget(t0)
        id == NodeIdNew(t)
        e  == MapGet(map, id)
    IN  /\ lastCall' = [ty |-> t, id |-> id, hit |-> e # "None",
                        known |-> returned[t] # 0]
        /\ IF e = "None"
           THEN \* line 78: reserve, then run the closure
                /\ Len(s) < MaxDepth
                /\ map' = [map EXCEPT ![id] = Reserved]
                /\ owner' = [owner EXCEPT ![id] = t]
                /\ ran' = [ran EXCEPT ![t] = @ + 1]
                /\ stack' = Append(s, [ty |-> t, id |-> id, ids |-> <<>>])
                /\ UNCHANGED returned
                /\ ret' = ret
           ELSE \* lines 73 and 75: the id is returned at once
                /\ UNCHANGED <<map, owner, ran>>
                /\ stack' = Deliver(s, id)
                /\ returned' = [returned EXCEPT ![t] = id]
                /\ ret' = IF s = <<>> THEN id ELSE ret

\* an outermost <T as Typed>::build(&mut graph)
BuildRoot(t) ==
    /\ stack = <<>>
    /\ ~panicked
    /\ root' = t
    /\ fresh' = (\A i \in NodeIds : map[i] = Absent)
    /\ steps' = 0
    /\ CallBuild(t, stack)
    /\ UNCHANGED <<hasher, panicked>>

\* the running closure builds its next field, element, key or value type
BuildField ==
    /\ stack # <<>>
    /\ LET top == stack[Len(stack)]
       IN  /\ Len(top.ids) < Len(Children(top.ty))
           /\ CallBuild(Children(top.ty)[Len(top.ids) + 1], stack)
    /\ steps' = steps + 1
    /\ UNCHANGED <<hasher, root, fresh, panicked>>

\* the closure returns: line 80 stores the node, line 81 returns the id
Finish ==
    /\ stack # <<>>
    /\ LET top  == stack[Len(stack)]
           rest == SubSeq(stack, 1, Len(stack) - 1)
       IN  /\ Len(top.ids) = Len(Children(top.ty))
           /\ map' = [map EXCEPT ![top.id] = TypeNode(top.ty, top.ids)]
           /\ stack' = Deliver(rest, top.id)
           /\ returned' = [returned EXCEPT ![top.ty] = top.id]
           /\ ret' = IF rest = <<>> THEN top.id ELSE ret
    /\ steps' = steps + 1
    /\ UNCHANGED <<hasher, lastCall, ran, owner, root, fresh, panicked>>

\* TypeGraph::get(id) on a graph no build is running on
Get(id) ==
    /\ stack = <<>>
    /\ ~panicked
    /\ panicked' = (MapGet(map, id) # "Some(Some)")
    /\ UNCHANGED <<hasher, map, stack, ret, lastCall, returned, ran,
                   owner, root, fresh, steps>>

GraphNext ==
    \/ \E t \in Types : BuildRoot(t)
    \/ BuildField
    \/ Finish
    \/ \E id \in NodeIds : Get(id)

\* a graph nothing was built on, for the specifications of the value model
GraphIdle ==
    /\ hasher = InjectiveHash
    /\ map = [i \in NodeIds |-> Absent]
    /\ stack = <<>>
    /\ ret = 0
    /\ lastCall = NoCall
    /\ returned = [t \in Types |-> 0]
    /\ ran = [t \in Types |-> 0]
    /\ owner = [i \in NodeIds |-> ""]
    /\ root = ""
    /\ fresh = FALSE
    /\ steps = 0
    /\ panicked = FALSE

(***************************************************************************)
(* The dynamic Value (value.rs).  A Value is [kind, val]: kind names the   *)
(* variant, val is its payload.  Integers and chars are integers, a String  *)
(* is the sequence of its bytes, a float is [nan, neg, mag] (sign and       *)
(* magnitude; for a NaN, neg and mag are the sign bit and the payload       *)
(* bits), a List is a sequence of Values, a TupleValue is [fields], a       *)
(* TupleStructValue is [tuple], a Map is the sequence of its <<key, value>> *)
(* pairs in key order.                                                      *)
(***************************************************************************)
IntKinds == {"usize", "u8", "u16", "u32", "u64", "u128",
             "i8", "i16", "i32", "i64", "i128"}
FloatKinds == {"f32", "f64"}
ScalarKinds == IntKinds \cup FloatKinds \cup {"bool", "char", "String"}

Val(k, p) == [kind |-> k, val |-> p]

\* TupleValue { fields: Vec<Value> }
Tv(fs) == [fields |-> fs]

\* TupleStructValue { tuple: TupleValue }
Tsv(fs) == [tuple |-> Tv(fs)]

\* the variants of OrdEqValue in declaration order: derive(PartialOrd, Ord)
\* orders the variants by this position
VariantsSwapped ==
    <<"usize", "u8", "u16", "u32", "u64", "u128",
      "i8", "i16", "i32", "i64", "i128",
      "bool", "char", "f32", "f64", "String",
      "StructValue", "TupleStructValue", "EnumValue", "TupleValue",
      "List", "Map">>

Variants ==
    <<"usize", "u8", "u16", "u32", "u64", "u128",
      "i8", "i16", "i32", "i64", "i128",
      "bool", "char", "f32", "f64", "String",
      "StructValue", "EnumValue", "TupleStructValue", "TupleValue",
      "List", "Map">>

\* From<&Value> for OrdEqValue keeps the variant; its position is the discriminant
VariantIndex(order) ==
    [k \in {order[i] : i \in 1..Len(order)} |->
        CHOOSE i \in 1..Len(order) : order[i] = k]

DiscriminantSwapped == VariantIndex(VariantsSwapped)

Discriminants == VariantIndex(Variants)

Discriminant_Swapped(x) == DiscriminantSwapped[x.kind]

Discriminant(x) == Discriminants[x.kind]

Less == -1
Equal == 0
Greater == 1

IntCmp(a, b) == IF a < b THEN Less ELSE IF a > b THEN Greater ELSE Equal

BoolCmp(a, b) == IntCmp(IF a THEN 1 ELSE 0, IF b THEN 1 ELSE 0)

\* f32/f64 partial_cmp: None when a side is NaN, -0.0 equals +0.0
FloatNum(x) == IF x.neg THEN 0 - x.mag ELSE x.mag

\* OrderedFloat::cmp: partial_cmp, and where it is None a NaN is greater than
\* every number and equal to every NaN
OrderedFloatCmp_Partial(x, y) ==
    IF x.nan \/ y.nan THEN Less ELSE IntCmp(FloatNum(x), FloatNum(y))

OrderedFloatCmp(x, y) ==
    IF ~x.nan /\ ~y.nan THEN IntCmp(FloatNum(x), FloatNum(y))
    ELSE IF x.nan THEN (IF y.nan THEN Equal ELSE Greater)
    ELSE Less

\* OrderedFloat::eq
OrderedFloatEq(x, y) ==
    IF x.nan THEN y.nan ELSE (~y.nan /\ FloatNum(x) = FloatNum(y))

Min(a, b) == IF a < b THEN a ELSE b

\* str::cmp: bytewise, then by length
RECURSIVE StrCmpFrom(_, _, _)
StrCmpFrom(s, t, i) ==
    IF i > Min(Len(s), Len(t)) THEN IntCmp(Len(s), Len(t))
    ELSE IF s[i] # t[i] THEN IntCmp(s[i], t[i])
    ELSE StrCmpFrom(s, t, i + 1)

StrCmp(s, t) == StrCmpFrom(s, t, 1)

RECURSIVE ValueCmp(_, _)
RECURSIVE SliceCmpFrom(_, _, _)
RECURSIVE PairsCmpFrom(_, _, _)
RECURSIVE FieldsCmpFrom(_, _, _)
RECURSIVE ValueEq(_, _)

\* <[Value] as Ord>::cmp: the first unequal pair decides, then the lengths
SliceCmpFrom(s, t, i) ==
    IF i > Min(Len(s), Len(t)) THEN IntCmp(Len(s), Len(t))
    ELSE LET c == ValueCmp(s[i], t[i])
         IN  IF c # Equal THEN c ELSE SliceCmpFrom(s, t, i + 1)

SliceCmp(s, t) == SliceCmpFrom(s, t, 1)

\* <BTreeMap<Value, Value> as Ord>::cmp: the entries in key order, each
\* compared as the pair (key, value)
PairsCmpFrom(s, t, i) ==
    IF i > Min(Len(s), Len(t)) THEN IntCmp(Len(s), Len(t))
    ELSE LET ck == ValueCmp(s[i][1], t[i][1])
             cv == ValueCmp(s[i][2], t[i][2])
         IN  IF ck # Equal THEN ck
             ELSE IF cv # Equal THEN cv
             ELSE PairsCmpFrom(s, t, i + 1)

PairsCmp(s, t) == PairsCmpFrom(s, t, 1)

\* StructValue: the named fields in name order, each compared as (name, value)
FieldsCmpFrom(s, t, i) ==
    IF i > Min(Len(s), Len(t)) THEN IntCmp(Len(s), Len(t))
    ELSE LET cn == StrCmp(s[i][1], t[i][1])
             cv == ValueCmp(s[i][2], t[i][2])
         IN  IF cn # Equal THEN cn
             ELSE IF cv # Equal THEN cv
             ELSE FieldsCmpFrom(s, t, i + 1)

FieldsCmp(s, t) == FieldsCmpFrom(s, t, 1)

\* EnumValue: the variant name, then the variant's fields
EnumCmp(x, y) ==
    LET cn == StrCmp(x.name, y.name)
    IN  IF cn # Equal THEN cn ELSE SliceCmp(x.fields, y.fields)

\* TupleValue: its fields, as a Vec<Value>
TupleValueCmp(x, y) == SliceCmp(x.fields, y.fields)

\* derive(Ord) of TupleStructValue: its only field, tuple
TupleStructValueCmp(x, y) == TupleValueCmp(x.tuple, y.tuple)

\* the comparison of two payloads of the same variant of OrdEqValue
PayloadCmp(x, y) ==
    CASE x.kind \in IntKinds \cup {"char"} -> IntCmp(x.val, y.val)
      [] x.kind = "bool" -> BoolCmp(x.val, y.val)
      [] x.kind \in FloatKinds -> OrderedFloatCmp(x.val, y.val)
      [] x.kind = "String" -> StrCmp(x.val, y.val)
      [] x.kind = "StructValue" -> FieldsCmp(x.val, y.val)
      [] x.kind = "EnumValue" -> EnumCmp(x.val, y.val)
      [] x.kind = "TupleStructValue" -> TupleStructValueCmp(x.val, y.val)
      [] x.kind = "TupleValue" -> TupleValueCmp(x.val, y.val)
      [] x.kind = "List" -> SliceCmp(x.val, y.val)
      [] x.kind = "Map" -> PairsCmp(x.val, y.val)

\* Ord for Value: OrdEqValue::from(self).cmp(&OrdEqValue::from(other)), the
\* derived cmp: the discriminants first, the payloads when they are equal
ValueCmp(x, y) ==
    IF Discriminant(x) # Discriminant(y)
    THEN IntCmp(Discriminant(x), Discriminant(y))
    ELSE PayloadCmp(x, y)

\* <[Value] as PartialEq>::eq
SliceEq(s, t) ==
    /\ Len(s) = Len(t)
    /\ \A i \in 1..Len(s) : ValueEq(s[i], t[i])

\* the derived == of two payloads of the same variant
PayloadEq(x, y) ==
    CASE x.kind \in IntKinds \cup {"char", "bool", "String"} -> x.val = y.val
      [] x.kind \in FloatKinds -> OrderedFloatEq(x.val, y.val)
      [] x.kind = "StructValue" ->
            /\ Len(x.val) = Len(y.val)
            /\ \A i \in 1..Len(x.val) :
                  /\ x.val[i][1] = y.val[i][1]
                  /\ ValueEq(x.val[i][2], y.val[i][2])
      [] x.kind = "EnumValue" ->
            /\ x.val.name = y.val.name
            /\ Len(x.val.fields) = Len(y.val.fields)
            /\ \A i \in 1..Len(x.val.fields) :
                  ValueEq(x.val.fields[i], y.val.fields[i])
      [] x.kind = "TupleStructValue" ->
            SliceEq(x.val.tuple.fields, y.val.tuple.fields)
      [] x.kind = "TupleValue" -> SliceEq(x.val.fields, y.val.fields)
      [] x.kind = "List" -> SliceEq(x.val, y.val)
      [] x.kind = "Map" ->
            /\ Len(x.val) = Len(y.val)
            /\ \A i \in 1..Len(x.val) :
                  /\ ValueEq(x.val[i][1], y.val[i][1])
                  /\ ValueEq(x.val[i][2], y.val[i][2])

\* PartialEq for Value: OrdEqValue::from(self) == OrdEqValue::from(other)
ValueEq(x, y) ==
    /\ Discriminant(x) = Discriminant(y)
    /\ PayloadEq(x, y)

(***************************************************************************)
(* The Values compared.                                                    *)
(***************************************************************************)
NaNa == [nan |-> TRUE, neg |-> FALSE, mag |-> 1]
NaNb == [nan |-> TRUE, neg |-> TRUE, mag |-> 2]
Num(n) == [nan |-> FALSE, neg |-> n < 0, mag |-> IF n < 0 THEN 0 - n ELSE n]
NegZero == [nan |-> FALSE, neg |-> TRUE, mag |-> 0]

MaxLen == 2

RECURSIVE SeqsUpTo(_, _)
SeqsUpTo(S, n) ==
    IF n = 0 THEN {<<>>}
    ELSE LET R == SeqsUpTo(S, n - 1)
         IN  R \cup {Append(r, x) : r \in {q \in R : Len(q) = n - 1}, x \in S}

OrdScalars ==
    {Val("usize", 0), Val("usize", 1), Val("u8", 0), Val("u8", 1)}
    \cup {Val(k, 0) : k \in IntKinds \ {"usize", "u8"}}
    \cup {Val("i32", -1)}
    \cup {Val("bool", FALSE), Val("bool", TRUE), Val("char", 97)}
    \cup {Val("f32", NaNa), Val("f32", NaNb), Val("f32", NegZero),
          Val("f32", Num(0)), Val("f32", Num(1))}
    \cup {Val("f64", NaNa), Val("f64", Num(-1))}
    \cup {Val("String", <<>>), Val("String", <<97>>), Val("String", <<97, 98>>)}

NestAtoms == {Val("f32", NaNa), Val("f32", Num(1))}

OrdAggregates ==
    {Val("List", s) : s \in SeqsUpTo(NestAtoms, MaxLen)}
    \cup {Val("List", <<Val("List", <<Val("f32", NaNa)>>)>>),
          Val("List", <<Val("List", <<Val("f32", NaNb)>>)>>),
          Val("List", <<Val("TupleValue", Tv(<<Val("f64", NaNb)>>))>>)}
    \cup {Val("TupleValue", Tv(<<>>)),
          Val("TupleValue", Tv(<<Val("f32", NaNa)>>)),
          Val("TupleValue", Tv(<<Val("f32", Num(1)), Val("f32", NaNb)>>))}
    \cup {Val("TupleStructValue", Tsv(<<>>)),
          Val("TupleStructValue", Tsv(<<Val("f32", NaNb), Val("i32", 0)>>)),
          Val("TupleStructValue", Tsv(<<Val("f32", NaNa), Val("i32", -1)>>))}
    \cup {Val("Map", <<>>),
          Val("Map", <<<<Val("f32", Num(1)), Val("f32", NaNa)>>>>),
          Val("Map", <<<<Val("f32", Num(1)), Val("f32", NaNb)>>>>),
          Val("Map", <<<<Val("f32", NaNa), Val("f32", Num(1))>>>>),
          Val("Map", <<<<Val("f32", Num(1)), Val("f32", Num(1))>>,
                       <<Val("f32", NaNa), Val("f32", Num(1))>>>>)}
    \cup {Val("StructValue", <<>>),
          Val("StructValue", <<<<<<97>>, Val("f32", NaNa)>>>>),
          Val("EnumValue", [name |-> <<97>>, fields |-> <<>>]),
          Val("EnumValue", [name |-> <<97>>, fields |-> <<Val("f32", NaNb)>>])}

OrdValues == OrdScalars \cup OrdAggregates

NoOut == [done |-> FALSE, ab |-> Equal, ba |-> Equal, bc |-> Equal,
          ac |-> Equal, eq |-> FALSE, lt |-> FALSE, gt |-> FALSE]

OrdIdle ==
    /\ va = Val("usize", 0)
    /\ vb = Val("usize", 0)
    /\ vc = Val("usize", 0)
    /\ out = NoOut

\* a == b, a < b, a > b and cmp on the pairs of three Values
Compare(a, b, c) ==
    /\ va' = a
    /\ vb' = b
    /\ vc' = c
    /\ out' = [done |-> TRUE,
               ab |-> ValueCmp(a, b), ba |-> ValueCmp(b, a),
               bc |-> ValueCmp(b, c), ac |-> ValueCmp(a, c),
               eq |-> ValueEq(a, b),
               lt |-> ValueCmp(a, b) = Less,
               gt |-> ValueCmp(a, b) = Greater]
    /\ UNCHANGED <<graphVars, patchVars, pathVars, nodeVars>>

OrdNext ==
    /\ ~out.done
    /\ \E a, b, c \in OrdValues : Compare(a, b, c)

(***************************************************************************)
(* Reflect objects.  A &dyn Reflect is [dty, obj]: the concrete type and    *)
(* the data.  Value is the enum above; "TupleStructValue" and "TupleValue"  *)
(* are the dynamic containers; "i32", "bool", "f32" are native scalars;     *)
(* "(i32,bool)" is the native tuple <<i32, bool>>; a Box<T> is [boxed].     *)
(***************************************************************************)
Dyn(ty, o) == [dty |-> ty, obj |-> o]

Boxed(x) == [boxed |-> x]

BoxInner(ty) ==
    CASE ty = "Box<TupleStructValue>" -> "TupleStructValue"
      [] ty = "Box<Value>"            -> "Value"

BoxTys == {"Box<TupleStructValue>", "Box<Value>"}

None == [some |-> FALSE, val |-> <<>>]
Some(x) == [some |-> TRUE, val |-> x]

RECURSIVE ReflectRef(_)
RECURSIVE ReflectMut(_)
RECURSIVE CloneReflect(_)
RECURSIVE ToValue(_)
RECURSIVE AsAny(_)
RECURSIVE Patch(_, _)

\* Reflect for Value::reflect_ref: the variant of ReflectRef per variant of
\* Value, with the fields a tuple-struct, tuple or list view gives access to
ValueReflectRef(v) ==
    CASE v.kind \in ScalarKinds ->
            [variant |-> "Scalar", fields |-> <<>>]
      [] v.kind = "StructValue" ->
            [variant |-> "Struct", fields |-> <<>>]
      [] v.kind = "EnumValue" ->
            [variant |-> "Enum", fields |-> <<>>]
      [] v.kind = "TupleStructValue" ->
            [variant |-> "TupleStruct",
             fields |-> [i \in 1..Len(v.val.tuple.fields) |->
                            Dyn("Value", v.val.tuple.fields[i])]]
      [] v.kind = "TupleValue" ->
            [variant |-> "Tuple",
             fields |-> [i \in 1..Len(v.val.fields) |->
                            Dyn("Value", v.val.fields[i])]]
      [] v.kind = "List" ->
            [variant |-> "List",
             fields |-> [i \in 1..Len(v.val) |-> Dyn("Value", v.val[i])]]
      [] v.kind = "Map" ->
            [variant |-> "Map", fields |-> <<>>]

\* Reflect for TupleStructValue::reflect_ref; TupleStruct::field is
\* self.tuple.field(index)
TupleStructValueReflectRef(t) ==
    [variant |-> "TupleStruct",
     fields |-> [i \in 1..Len(t.tuple.fields) |-> Dyn("Value", t.tuple.fields[i])]]

\* Reflect for TupleValue::reflect_ref
TupleValueReflectRef(t) ==
    [variant |-> "Tuple",
     fields |-> [i \in 1..Len(t.fields) |-> Dyn("Value", t.fields[i])]]

\* Reflect for (i32, bool)::reflect_ref
NativeTupleReflectRef(t) ==
    [variant |-> "Tuple", fields |-> <<Dyn("i32", t[1]), Dyn("bool", t[2])>>]

\* Reflect for Box<T>::reflect_ref is T's
BoxReflectRef(ty, b) == ReflectRef(Dyn(BoxInner(ty), b.boxed))

\* value.reflect_ref() through the vtable of the &dyn Reflect
ReflectRef(d) ==
    CASE d.dty = "Value"            -> ValueReflectRef(d.obj)
      [] d.dty = "TupleStructValue" -> TupleStructValueReflectRef(d.obj)
      [] d.dty = "TupleValue"       -> TupleValueReflectRef(d.obj)
      [] d.dty = "(i32,bool)"       -> NativeTupleReflectRef(d.obj)
      [] d.dty \in ScalarKinds      -> [variant |-> "Scalar", fields |-> <<>>]
      [] d.dty \in BoxTys           -> BoxReflectRef(d.dty, d.obj)

\* ReflectRef::as_tuple_struct / as_tuple / as_list: Some for that variant only
AsTupleStruct_OrTuple(r) ==
    IF r.variant \in {"TupleStruct", "Tuple"} THEN Some(r.fields) ELSE None

AsTupleStruct(r) == IF r.variant = "TupleStruct" THEN Some(r.fields) ELSE None

AsTuple(r) == IF r.variant = "Tuple" THEN Some(r.fields) ELSE None

AsList(r) == IF r.variant = "List" THEN Some(r.fields) ELSE None

\* TupleStruct::field(index), index from 0: None past the last field
Field(fields, index) ==
    IF index < Len(fields) THEN Some(fields[index + 1]) ELSE None

\* Reflect for Value::as_any: the payload of the variant, as itself
ValueAsAny(v) == [ty |-> v.kind, data |-> v.val]

\* Reflect for Box<T>::as_any is T's
BoxAsAny(ty, b) == AsAny(Dyn(BoxInner(ty), b.boxed))

\* value.as_any(): the concrete type behind the &dyn Any, and the data
AsAny(d) ==
    CASE d.dty = "Value"  -> ValueAsAny(d.obj)
      [] d.dty \in BoxTys -> BoxAsAny(d.dty, d.obj)
      [] OTHER            -> [ty |-> d.dty, data |-> d.obj]

\* Reflect for Value::to_value: self.clone()
ValueToValue(v) == v

\* Reflect for TupleStructValue::to_value: self.clone().into(), with
\* From<TupleStructValue> for Value of from_impls!
TupleStructValueToValue(t) == Val("TupleStructValue", t)

\* Reflect for TupleValue::to_value, with From<TupleValue> for Value
TupleValueToValue(t) == Val("TupleValue", t)

\* Reflect for a native scalar: Value::from(self.clone()) of from_impls!
ScalarToValue(ty, x) == Val(ty, x)

\* Reflect for (i32, bool)::to_value: a TupleValue of the fields' Values
NativeTupleToValue(t) ==
    Val("TupleValue", Tv(<<ScalarToValue("i32", t[1]), ScalarToValue("bool", t[2])>>))

\* Reflect for Box<T>::to_value is T's
BoxToValue(ty, b) == ToValue(Dyn(BoxInner(ty), b.boxed))

\* value.to_value() through the vtable
ToValue(d) ==
    CASE d.dty = "Value"            -> ValueToValue(d.obj)
      [] d.dty = "TupleStructValue" -> TupleStructValueToValue(d.obj)
      [] d.dty = "TupleValue"       -> TupleValueToValue(d.obj)
      [] d.dty = "(i32,bool)"       -> NativeTupleToValue(d.obj)
      [] d.dty \in ScalarKinds      -> ScalarToValue(d.dty, d.obj)
      [] d.dty \in BoxTys           -> BoxToValue(d.dty, d.obj)

\* Reflect for Value::reflect_mut, TupleStructValue::reflect_mut, ..: the
\* variant of ReflectMut is the one reflect_ref gives of ReflectRef, over the
\* same fields
ValueReflectMut(v) == ValueReflectRef(v)

TupleStructValueReflectMut(t) == TupleStructValueReflectRef(t)

\* Reflect for Box<T>::reflect_mut is T's
BoxReflectMut(ty, b) == ReflectMut(Dyn(BoxInner(ty), b.boxed))

\* value.reflect_mut() through the vtable
ReflectMut(d) ==
    CASE d.dty = "Value"            -> ValueReflectMut(d.obj)
      [] d.dty = "TupleStructValue" -> TupleStructValueReflectMut(d.obj)
      [] d.dty \in BoxTys           -> BoxReflectMut(d.dty, d.obj)
      [] OTHER                      -> ReflectRef(d)

\* Reflect for Value::clone_reflect, TupleStructValue::clone_reflect:
\* Box::new(self.clone()), a Box<dyn Reflect> of the type itself
ValueCloneReflect(v) == Dyn("Value", v)

TupleStructValueCloneReflect(t) == Dyn("TupleStructValue", t)

\* Reflect for Box<T>::clone_reflect is T's: the clone is a T, not a Box<T>
BoxCloneReflect(ty, b) == CloneReflect(Dyn(BoxInner(ty), b.boxed))

\* value.clone_reflect() through the vtable
CloneReflect(d) ==
    CASE d.dty = "Value"            -> ValueCloneReflect(d.obj)
      [] d.dty = "TupleStructValue" -> TupleStructValueCloneReflect(d.obj)
      [] d.dty \in BoxTys           -> BoxCloneReflect(d.dty, d.obj)
      [] OTHER                      -> d

\* patch of a native scalar of type ty: the value is taken when the patch is
\* a scalar of the same type and the scalar is left as it is otherwise
ScalarPatch(ty, x, d) ==
    IF AsAny(d).ty = ty THEN AsAny(d).data ELSE x

\* the loop reading the patch one index too far
PatchFields_OffByOne(fields, tuple) ==
    [i \in 1..Len(fields) |->
        IF Field(tuple, i).some
        THEN Patch(Dyn("Value", fields[i]), Field(tuple, i).val).obj
        ELSE fields[i]]

\* the fields, each patched with the field of the same index when tuple has one
PatchFields(fields, tuple) ==
    [i \in 1..Len(fields) |->
        IF Field(tuple, i - 1).some
        THEN Patch(Dyn("Value", fields[i]), Field(tuple, i - 1).val).obj
        ELSE fields[i]]

\* a patch that takes a tuple for a tuple-struct
TupleStructValuePatch_AnyTuple(t, d) ==
    IF AsTupleStruct_OrTuple(ReflectRef(d)).some
    THEN Tsv(PatchFields(t.tuple.fields, AsTupleStruct_OrTuple(ReflectRef(d)).val))
    ELSE t

\* Reflect for TupleStructValue::patch
TupleStructValuePatch(t, d) ==
    IF AsTupleStruct(ReflectRef(d)).some
    THEN Tsv(PatchFields(t.tuple.fields, AsTupleStruct(ReflectRef(d)).val))
    ELSE t

\* Reflect for TupleValue::patch
TupleValuePatch(t, d) ==
    IF AsTuple(ReflectRef(d)).some
    THEN Tv(PatchFields(t.fields, AsTuple(ReflectRef(d)).val))
    ELSE t

\* Reflect for (i32, bool)::patch
NativeTuplePatch(t, d) ==
    LET tuple == AsTuple(ReflectRef(d))
    IN  IF tuple.some
        THEN <<IF Field(tuple.val, 0).some
               THEN ScalarPatch("i32", t[1], Field(tuple.val, 0).val) ELSE t[1],
               IF Field(tuple.val, 1).some
               THEN ScalarPatch("bool", t[2], Field(tuple.val, 1).val) ELSE t[2]>>
        ELSE t

\* Reflect for Vec<Value>::patch: index by index
ListPatch(l, d) ==
    IF AsList(ReflectRef(d)).some
    THEN PatchFields(l, AsList(ReflectRef(d)).val)
    ELSE l

\* a patch that overwrites the Value with the patch's
ValuePatch_Replace(v, d) == ToValue(d)

\* Reflect for Value::patch: inner.patch(value) on the payload of the variant
ValuePatch(v, d) ==
    CASE v.kind \in ScalarKinds ->
            Val(v.kind, ScalarPatch(v.kind, v.val, d))
      [] v.kind = "TupleStructValue" ->
            Val(v.kind, TupleStructValuePatch(v.val, d))
      [] v.kind = "TupleValue" ->
            Val(v.kind, TupleValuePatch(v.val, d))
      [] v.kind = "List" ->
            Val(v.kind, ListPatch(v.val, d))

\* Reflect for Box<T>::patch is T's
BoxPatch(ty, b, d) == Boxed(Patch(Dyn(BoxInner(ty), b.boxed), d).obj)

\* target.patch(value) through the vtable: the target after the patch
Patch(o, d) ==
    CASE o.dty = "Value" -> Dyn(o.dty, ValuePatch(o.obj, d))
      [] o.dty = "TupleStructValue" -> Dyn(o.dty, TupleStructValuePatch(o.obj, d))
      [] o.dty = "TupleValue" -> Dyn(o.dty, TupleValuePatch(o.obj, d))
      [] o.dty = "(i32,bool)" -> Dyn(o.dty, NativeTuplePatch(o.obj, d))
      [] o.dty \in ScalarKinds -> Dyn(o.dty, ScalarPatch(o.dty, o.obj, d))
      [] o.dty \in BoxTys -> Dyn(o.dty, BoxPatch(o.dty, o.obj, d))

\* TupleStructValue::with_field: the value is pushed on the tuple
WithField(t, v) == Tsv(Append(t.tuple.fields, v))

\* fields().fold(TupleStructValue::default(), |builder, value|
\* builder.with_field(value.to_value())): Iter yields field(index) from
\* index 0 until it is None
RECURSIVE FoldFields(_, _, _)
FoldFields(fields, index, builder) ==
    IF ~Field(fields, index).some THEN builder
    ELSE FoldFields(fields, index + 1,
                    WithField(builder, ToValue(Field(fields, index).val)))

RECURSIVE FoldFieldsReversed(_, _, _)
FoldFieldsReversed(fields, index, builder) ==
    IF ~Field(fields, index).some THEN builder
    ELSE FoldFieldsReversed(fields, index + 1,
            Tsv(<<ToValue(Field(fields, index).val)>> \o builder.tuple.fields))

\* a from_reflect that builds the fields last to first
TupleStructValueFromReflect_Reversed(d) ==
    IF ~AsTupleStruct(ReflectRef(d)).some THEN None
    ELSE Some(FoldFieldsReversed(AsTupleStruct(ReflectRef(d)).val, 0, Tsv(<<>>)))

\* a from_reflect that folds over whatever fields the value shows
TupleStructValueFromReflect_Lenient(d) ==
    Some(FoldFields(ReflectRef(d).fields, 0, Tsv(<<>>)))

\* FromReflect for TupleStructValue
TupleStructValueFromReflect(d) ==
    IF ~AsTupleStruct(ReflectRef(d)).some THEN None
    ELSE Some(FoldFields(AsTupleStruct(ReflectRef(d)).val, 0, Tsv(<<>>)))

\* FromReflect for Value
ValueFromReflect(d) == Some(ToValue(d))

\* T::from_reflect for the types boxed in the model
FromReflectOf(ty, d) ==
    CASE ty = "TupleStructValue" -> TupleStructValueFromReflect(d)
      [] ty = "Value"            -> ValueFromReflect(d)

\* FromReflect for Box<T>: Some(Box::new(T::from_reflect(reflect)?))
BoxFromReflect(ty, d) ==
    IF ~FromReflectOf(BoxInner(ty), d).some THEN None
    ELSE Some(Boxed(FromReflectOf(BoxInner(ty), d).val))

\* Self::from_reflect for the type named ty
FromReflect(ty, d) ==
    IF ty \in BoxTys THEN BoxFromReflect(ty, d) ELSE FromReflectOf(ty, d)

FromReflectTys == {"Value", "TupleStructValue"} \cup BoxTys

(***************************************************************************)
(* The objects patched and the patches.                                    *)
(***************************************************************************)
MaxFields == 2

PatchAtoms == {Val("i32", 1), Val("bool", FALSE)}

PickedLists ==
    {<<Val("i32", 42)>>,
     <<Val("i32", 1), Val("i32", 42)>>,
     <<Val("f32", NaNa), Val("i32", 42)>>,
     <<Val("i32", 42), Val("bool", TRUE), Val("i32", 1)>>,
     <<Val("TupleStructValue", Tsv(<<Val("i32", 1), Val("bool", FALSE)>>)),
       Val("i32", 1)>>,
     <<Val("TupleStructValue", Tsv(<<Val("i32", 42)>>)),
       Val("bool", TRUE)>>}

FieldLists == SeqsUpTo(PatchAtoms, MaxFields) \cup PickedLists

AggregateValues ==
    UNION {{Val("TupleStructValue", Tsv(l)), Val("TupleValue", Tv(l)),
            Val("List", l)} : l \in PickedLists}

ScalarValues ==
    {Val("i32", 1), Val("i32", 42), Val("bool", FALSE), Val("f32", NaNa),
     Val("f32", Num(1))}

\* the targets: what patch, to_value and from_reflect are applied to
PatchTargets ==
    {Dyn("Value", v) : v \in AggregateValues \cup ScalarValues}
    \cup {Dyn("TupleStructValue", Tsv(l)) : l \in FieldLists}
    \cup {Dyn("TupleValue", Tv(l)) : l \in FieldLists}
    \cup {Dyn("Box<TupleStructValue>", Boxed(Tsv(l))) : l \in PickedLists}
    \cup {Dyn("Box<Value>", Boxed(v)) : v \in ScalarValues}
    \cup {Dyn("(i32,bool)", <<1, FALSE>>), Dyn("(i32,bool)", <<42, TRUE>>)}

\* the patches: the same, and values of the shapes no target has
Patches ==
    PatchTargets
    \cup {Dyn("Value", Val("Map", <<>>)),
          Dyn("Value", Val("Map", <<<<Val("i32", 1), Val("i32", 42)>>>>)),
          Dyn("Value", Val("StructValue", <<>>)),
          Dyn("Value", Val("EnumValue", [name |-> <<97>>, fields |-> <<>>])),
          Dyn("i32", 42), Dyn("bool", TRUE)}

NoArg == Dyn("Value", Val("usize", 0))

PatchIdle ==
    /\ target = NoArg
    /\ before = NoArg
    /\ arg = NoArg
    /\ res = None
    /\ op = "idle"

PatchInit ==
    /\ target \in PatchTargets
    /\ before = target
    /\ arg = NoArg
    /\ res = None
    /\ op = "new"

\* target.patch(&value)
DoPatch(d) ==
    /\ target' = Patch(target, d)
    /\ before' = target
    /\ arg' = d
    /\ res' = None
    /\ op' = "patch"
    /\ UNCHANGED <<graphVars, ordVars, pathVars, nodeVars>>

\* target.patch(&target.to_value())
PatchWithOwnValue ==
    /\ target' = Patch(target, Dyn("Value", ToValue(target)))
    /\ before' = target
    /\ arg' = Dyn("Value", ToValue(target))
    /\ res' = None
    /\ op' = "patch_own"
    /\ UNCHANGED <<graphVars, ordVars, pathVars, nodeVars>>

\* Self::from_reflect(&target.to_value()) for the type of the target
RoundTrip ==
    /\ target.dty \in FromReflectTys
    /\ res' = FromReflect(target.dty, Dyn("Value", ToValue(target)))
    /\ arg' = Dyn("Value", ToValue(target))
    /\ before' = target
    /\ op' = "round_trip"
    /\ UNCHANGED <<target, graphVars, ordVars, pathVars, nodeVars>>

\* Self::from_reflect(&value) for the type of the target
DoFromReflect(d) ==
    /\ res' = FromReflect(target.dty, d)
    /\ arg' = d
    /\ before' = target
    /\ op' = "from_reflect"
    /\ UNCHANGED <<target, graphVars, ordVars, pathVars, nodeVars>>

PatchNext ==
    \/ \E d \in Patches : DoPatch(d)
    \/ PatchWithOwnValue
    \/ RoundTrip
    \/ /\ target.dty \in FromReflectTys
       /\ \E d \in Patches : DoFromReflect(d)


(***************************************************************************)
(* Key paths.  A key is [key, name, index]: a named field `.name`, a         *)
(* numbered field `.N`, an index `[N]` or `["name"]`, a variant selector    *)
(* `::Name`.  A key path is a sequence of keys.                             *)
(***************************************************************************)
KeyField(name) == [key |-> "Named", name |-> name, index |-> 0]

KeyFieldAt(n) == [key |-> "Numbered", name |-> "", index |-> n]

KeyGetInt(n) == [key |-> "GetInt", name |-> "", index |-> n]

KeyGetStr(s) == [key |-> "GetStr", name |-> s, index |-> 0]

KeyVariant(name) == [key |-> "Variant", name |-> name, index |-> 0]

(***************************************************************************)
(* Live values of the derived types of the tests: [ty, shape, variant,      *)
(* names, vals, x].  names are the field names or the map keys, in the      *)
(* order of vals; a scalar carries its literal in x.                        *)
(***************************************************************************)
ScalarOf(ty, x) ==
    [ty |-> ty, shape |-> "Scalar", variant |-> "", names |-> <<>>,
     vals |-> <<>>, x |-> x]

StructOf(ty, names, vals) ==
    [ty |-> ty, shape |-> "Struct", variant |-> "", names |-> names,
     vals |-> vals, x |-> ""]

TupleOf(ty, vals) ==
    [ty |-> ty, shape |-> "Tuple", variant |-> "", names |-> <<>>,
     vals |-> vals, x |-> ""]

EnumOf(ty, variant, names, vals) ==
    [ty |-> ty, shape |-> "Enum", variant |-> variant, names |-> names,
     vals |-> vals, x |-> ""]

ListOf(ty, vals) ==
    [ty |-> ty, shape |-> "List", variant |-> "", names |-> <<>>,
     vals |-> vals, x |-> ""]

ArrayOf(ty, vals) ==
    [ty |-> ty, shape |-> "Array", variant |-> "", names |-> <<>>,
     vals |-> vals, x |-> ""]

MapOf(ty, keys, vals) ==
    [ty |-> ty, shape |-> "Map", variant |-> "", names |-> keys,
     vals |-> vals, x |-> ""]

\* the position of name in names, 0 when it is not there
RECURSIVE IndexOfFrom(_, _, _)
IndexOfFrom(names, name, i) ==
    IF i > Len(names) THEN 0
    ELSE IF names[i] = name THEN i
    ELSE IndexOfFrom(names, name, i + 1)

IndexOf(names, name) == IndexOfFrom(names, name, 1)

\* Struct::field(name), Enum::field(name): the field of that name of the
\* struct or of the active variant
FieldNamed(v, name) ==
    IF v.shape \in {"Struct", "Enum"} /\ IndexOf(v.names, name) # 0
    THEN Some(v.vals[IndexOf(v.names, name)])
    ELSE None

\* Tuple::field(index), TupleStruct::field(index), Enum::field_at(index)
FieldNumbered(v, index) ==
    IF /\ v.shape \in {"Tuple", "TupleStruct", "Enum"}
       /\ v.names = <<>>
       /\ index < Len(v.vals)
    THEN Some(v.vals[index + 1])
    ELSE None

\* List::get(index), Array::get(index)
ListGet(v, index) ==
    IF v.shape \in {"List", "Array"} /\ index < Len(v.vals)
    THEN Some(v.vals[index + 1])
    ELSE None

\* Map::get(key)
MapGetKey(v, key) ==
    IF v.shape = "Map" /\ IndexOf(v.names, key) # 0
    THEN Some(v.vals[IndexOf(v.names, key)])
    ELSE None

\* the selector of a variant that is not the active one is taken all the same
SelectVariant_Any(v, name) ==
    IF v.shape = "Enum" THEN Some(v) ELSE None

\* `::Name`: the enum itself when Name is its active variant
SelectVariant(v, name) ==
    IF v.shape = "Enum" /\ v.variant = name THEN Some(v) ELSE None

\* one key applied to a value
AtKey(v, k) ==
    CASE k.key = "Named"    -> FieldNamed(v, k.name)
      [] k.key = "Numbered" -> FieldNumbered(v, k.index)
      [] k.key = "GetInt"   -> ListGet(v, k.index)
      [] k.key = "GetStr"   -> MapGetKey(v, k.name)
      [] k.key = "Variant"  -> SelectVariant(v, k.name)

\* a resolver that answers with the last value it reached
RECURSIVE At_Partial(_, _)
At_Partial(v, path) ==
    IF path = <<>> THEN Some(v)
    ELSE IF ~AtKey(v, Head(path)).some THEN Some(v)
    ELSE At_Partial(AtKey(v, Head(path)).val, Tail(path))

\* GetPath::at: the keys applied in order, None at the first that fails
RECURSIVE At(_, _)
At(v, path) ==
    IF path = <<>> THEN Some(v)
    ELSE IF ~AtKey(v, Head(path)).some THEN None
    ELSE At(AtKey(v, Head(path)).val, Tail(path))

(***************************************************************************)
(* The type graph of the derived types: the nodes as their constructors    *)
(* build them.  A field holds the NodeId T::build returned for its type.   *)
(***************************************************************************)
PathTypes ==
    <<"i32", "bool", "String", "u32", "f32",
      "A", "B", "C", "BTreeMap<String, u32>", "Vec<f32>",
      "Company", "Country", "Vec<Country>", "Foo", "[f32; 2]", "(i32, bool)">>

\* T::build(graph) on a graph of distinct NodeIds: the id of T's entry
BuildId(ty) == CHOOSE i \in 1..Len(PathTypes) : PathTypes[i] = ty

\* NamedFieldNode::new::<T>(name, ..)
NamedFieldNodeNew(name, ty) == [name |-> name, id |-> BuildId(ty)]

\* UnnamedFieldNode::new::<T>(..)
UnnamedFieldNodeNew(ty) == [id |-> BuildId(ty)]

\* fields.iter().map(|field| (field.name.clone(), field.clone())).collect():
\* a later field of the same name replaces the earlier one
RECURSIVE LastNamed(_, _, _)
LastNamed(fields, name, i) ==
    IF fields[i].name = name THEN fields[i] ELSE LastNamed(fields, name, i - 1)

CollectByName(fields) ==
    [name \in {fields[i].name : i \in 1..Len(fields)} |->
        LastNamed(fields, name, Len(fields))]

\* fields.iter().map(|field| field.name.clone()).collect()
CollectNames(fields) == [i \in 1..Len(fields) |-> fields[i].name]

\* StructNode::new::<T>(fields, ..)
StructNodeNew(type_name, fields) ==
    [node |-> "Struct", type_name |-> type_name,
     fields |-> CollectByName(fields), field_names |-> CollectNames(fields)]

\* TupleNode::new::<T>(fields, ..)
TupleNodeNew(type_name, fields) ==
    [node |-> "Tuple", type_name |-> type_name, fields |-> fields]

\* a variant built without its fields
StructVariantNodeNew_NoFields(name, fields) ==
    [variant |-> "Struct", name |-> name,
     fields |-> CollectByName(<<>>), field_names |-> CollectNames(fields)]

\* StructVariantNode::new(name, fields, ..)
StructVariantNodeNew(name, fields) ==
    [variant |-> "Struct", name |-> name,
     fields |-> CollectByName(fields), field_names |-> CollectNames(fields)]

\* TupleVariantNode::new(name, fields, ..)
TupleVariantNodeNew(name, fields) ==
    [variant |-> "Tuple", name |-> name, fields |-> fields]

\* UnitVariantNode::new(name, ..)
UnitVariantNodeNew(name) == [variant |-> "Unit", name |-> name]

\* EnumNode::new::<T>(variants, ..)
EnumNodeNew(type_name, variants) ==
    [node |-> "Enum", type_name |-> type_name, variants |-> variants]

\* a list described by its own id in place of its element's
ListNodeNew_OwnId(type_name, elem) ==
    [node |-> "List", type_name |-> type_name, field_type_id |-> BuildId(type_name)]

\* ListNode::new::<L, T>(graph)
ListNodeNew(type_name, elem) ==
    [node |-> "List", type_name |-> type_name, field_type_id |-> BuildId(elem)]

\* ArrayNode::new::<L, T, N>(graph)
ArrayNodeNew(type_name, elem, n) ==
    [node |-> "Array", type_name |-> type_name, field_type_id |-> BuildId(elem),
     len |-> n]

\* a map described with its key type for its value type
MapNodeNew_KeyForValue(type_name, k, v) ==
    [node |-> "Map", type_name |-> type_name,
     key_type_id |-> BuildId(k), value_type_id |-> BuildId(k)]

\* MapNode::new::<M, K, V>(graph)
MapNodeNew(type_name, k, v) ==
    [node |-> "Map", type_name |-> type_name,
     key_type_id |-> BuildId(k), value_type_id |-> BuildId(v)]

\* scalar_typed!: ScalarNode::$ty
ScalarNodeOf(ty) == [node |-> "Scalar", type_name |-> ty]

\* the node the derived Typed::build of each type of the tests inserts
NodeOf(ty) ==
    CASE ty \in {"i32", "bool", "String", "u32", "f32"} -> ScalarNodeOf(ty)
      [] ty = "A" ->
            StructNodeNew("A", <<NamedFieldNodeNew("a", "i32"),
                                 NamedFieldNodeNew("b", "B"),
                                 NamedFieldNodeNew("c", "C"),
                                 NamedFieldNodeNew("d", "BTreeMap<String, u32>"),
                                 NamedFieldNodeNew("e", "Vec<f32>")>>)
      [] ty = "B" -> StructNodeNew("B", <<NamedFieldNodeNew("c", "bool")>>)
      [] ty = "C" ->
            EnumNodeNew("C", <<StructVariantNodeNew("C",
                                  <<NamedFieldNodeNew("d", "String")>>)>>)
      [] ty = "BTreeMap<String, u32>" -> MapNodeNew(ty, "String", "u32")
      [] ty = "Vec<f32>" -> ListNodeNew(ty, "f32")
      [] ty = "Company" ->
            StructNodeNew("Company",
                          <<NamedFieldNodeNew("countries", "Vec<Country>")>>)
      [] ty = "Country" ->
            StructNodeNew("Country", <<NamedFieldNodeNew("name", "String")>>)
      [] ty = "Vec<Country>" -> ListNodeNew(ty, "Country")
      [] ty = "Foo" ->
            EnumNodeNew("Foo",
                <<StructVariantNodeNew("A", <<NamedFieldNodeNew("a", "String")>>),
                  TupleVariantNodeNew("B", <<UnnamedFieldNodeNew("i32")>>),
                  UnitVariantNodeNew("C")>>)
      [] ty = "[f32; 2]" -> ArrayNodeNew(ty, "f32", 2)
      [] ty = "(i32, bool)" ->
            TupleNodeNew(ty, <<UnnamedFieldNodeNew("i32"),
                               UnnamedFieldNodeNew("bool")>>)

\* the completed graph: every entry resolved
PathGraph == [id \in 1..Len(PathTypes) |-> NodeOf(PathTypes[id])]

\* TypeAtPath: a type of the graph, or a variant of an enum with its
\* selector taken
TypeAtType(id) == [at |-> "Type", id |-> id, variant |-> UnitVariantNodeNew("")]

TypeAtVariant(id, variant) == [at |-> "Variant", id |-> id, variant |-> variant]

\* EnumNode: the variant of that name
RECURSIVE VariantNamed(_, _, _)
VariantNamed(variants, name, i) ==
    IF i > Len(variants) THEN None
    ELSE IF variants[i].name = name THEN Some(variants[i])
    ELSE VariantNamed(variants, name, i + 1)

\* one key applied to a variant: its fields by name or by position only
VariantAtKey(v, k) ==
    CASE k.key = "Named" /\ v.variant = "Struct" ->
            IF k.name \in DOMAIN v.fields
            THEN Some(TypeAtType(v.fields[k.name].id)) ELSE None
      [] k.key = "Numbered" /\ v.variant = "Tuple" ->
            IF k.index < Len(v.fields)
            THEN Some(TypeAtType(v.fields[k.index + 1].id)) ELSE None
      [] OTHER -> None

\* one key applied to a node of the graph
NodeAtKey(g, id, k) ==
    LET n == g[id]
    IN  CASE k.key = "Named" /\ n.node = "Struct" ->
                IF k.name \in DOMAIN n.fields
                THEN Some(TypeAtType(n.fields[k.name].id)) ELSE None
          [] k.key = "Numbered" /\ n.node \in {"Tuple", "TupleStruct"} ->
                IF k.index < Len(n.fields)
                THEN Some(TypeAtType(n.fields[k.index + 1].id)) ELSE None
          [] k.key = "GetInt" /\ n.node \in {"List", "Array"} ->
                Some(TypeAtType(n.field_type_id))
          [] k.key \in {"GetInt", "GetStr"} /\ n.node = "Map" ->
                Some(TypeAtType(n.value_type_id))
          [] k.key = "Variant" /\ n.node = "Enum" ->
                IF VariantNamed(n.variants, k.name, 1).some
                THEN Some(TypeAtVariant(id, VariantNamed(n.variants, k.name, 1).val))
                ELSE None
          [] OTHER -> None

TypeAtKey(g, t, k) ==
    IF t.at = "Variant" THEN VariantAtKey(t.variant, k) ELSE NodeAtKey(g, t.id, k)

\* GetTypePath::type_at: the keys applied in order from a type of the graph
RECURSIVE TypeAtFrom(_, _, _)
TypeAtFrom(g, t, path) ==
    IF path = <<>> THEN Some(t)
    ELSE IF ~TypeAtKey(g, t, Head(path)).some THEN None
    ELSE TypeAtFrom(g, TypeAtKey(g, t, Head(path)).val, Tail(path))

TypeAt(g, id, path) == TypeAtFrom(g, TypeAtType(id), path)

(***************************************************************************)
(* The values and the keys of the tests.                                   *)
(***************************************************************************)
MaxPath == 3

\* works: let mut a = A { .. }
ValueA ==
    StructOf("A", <<"a", "b", "c", "d", "e">>,
        <<ScalarOf("i32", "42"),
          StructOf("B", <<"c">>, <<ScalarOf("bool", "true")>>),
          EnumOf("C", "C", <<"d">>, <<ScalarOf("String", "foo")>>),
          MapOf("BTreeMap<String, u32>", <<"fourtytwo">>, <<ScalarOf("u32", "42")>>),
          ListOf("Vec<f32>", <<ScalarOf("f32", "1.0"), ScalarOf("f32", "2.0"),
                               ScalarOf("f32", "3.0")>>)>>)

\* query_type_info_struct: user.employer
ValueCompany ==
    StructOf("Company", <<"countries">>,
        <<ListOf("Vec<Country>",
            <<StructOf("Country", <<"name">>, <<ScalarOf("String", "Denmark")>>)>>)>>)

\* query_type_info_enum: the three variants of Foo
ValuesFoo ==
    {EnumOf("Foo", "A", <<"a">>, <<ScalarOf("String", "foo")>>),
     EnumOf("Foo", "B", <<>>, <<ScalarOf("i32", "42")>>),
     EnumOf("Foo", "C", <<>>, <<>>)}

\* static_tuple: (1_i32, false), and an array
ValuesSeq ==
    {TupleOf("(i32, bool)", <<ScalarOf("i32", "1"), ScalarOf("bool", "false")>>),
     ArrayOf("[f32; 2]", <<ScalarOf("f32", "1.0"), ScalarOf("f32", "2.0")>>)}

Roots == {ValueA, ValueCompany} \cup ValuesFoo \cup ValuesSeq

\* the keys the paths on a root of type ty are made of
KeysFor(ty) ==
    CASE ty = "A" ->
            {KeyField("a"), KeyField("b"), KeyField("c"), KeyField("d"),
             KeyField("e"), KeyGetInt(0), KeyGetInt(3), KeyGetStr("fourtytwo"),
             KeyVariant("C"), KeyVariant("DoesntExist")}
      [] ty = "Company" ->
            {KeyField("countries"), KeyField("name"), KeyGetInt(0), KeyGetInt(1),
             KeyGetStr("x")}
      [] ty = "Foo" ->
            {KeyVariant("A"), KeyVariant("B"), KeyVariant("C"), KeyField("a"),
             KeyFieldAt(0), KeyGetInt(0)}
      [] OTHER ->
            {KeyFieldAt(0), KeyFieldAt(2), KeyGetInt(0), KeyGetInt(2), KeyGetStr("x")}

\* the values an assignment through a path stores, by type
Assignable(ty) ==
    CASE ty = "bool"   -> {ScalarOf("bool", "false"), ScalarOf("bool", "true")}
      [] ty = "i32"    -> {ScalarOf("i32", "7")}
      [] ty = "String" -> {ScalarOf("String", "bar")}
      [] ty = "f32"    -> {ScalarOf("f32", "9.5")}
      [] ty = "u32"    -> {ScalarOf("u32", "7")}
      [] ty = "B"      -> {StructOf("B", <<"c">>, <<ScalarOf("bool", "false")>>)}
      [] OTHER         -> {}

\* a mutable resolver that always takes the first field
KeyIndex_First(v, k) == IF k.key = "Variant" THEN 0 ELSE 1

\* the position in v.vals of the value AtKey(v, k) gives, 0 for v itself
KeyIndex(v, k) ==
    CASE k.key = "Named"    -> IndexOf(v.names, k.name)
      [] k.key = "Numbered" -> k.index + 1
      [] k.key = "GetInt"   -> k.index + 1
      [] k.key = "GetStr"   -> IndexOf(v.names, k.name)
      [] k.key = "Variant"  -> 0

\* *v.at_mut(path).unwrap() = x, for a path at resolves
RECURSIVE SetAt(_, _, _)
SetAt(v, path, x) ==
    IF path = <<>> THEN x
    ELSE IF KeyIndex(v, Head(path)) = 0 THEN SetAt(v, Tail(path), x)
    ELSE [v EXCEPT !.vals[KeyIndex(v, Head(path))] =
                        SetAt(v.vals[KeyIndex(v, Head(path))], Tail(path), x)]

(***************************************************************************)
(* The text of a key path, as the sequence of its characters.              *)
(***************************************************************************)
Names ==
    {"a", "b", "c", "d", "e", "countries", "name", "fourtytwo", "x", "foo",
     "A", "B", "C", "D", "DoesntExist"}

\* the characters of a name
Spell(name) ==
    CASE name = "countries" -> <<"c", "o", "u", "n", "t", "r", "i", "e", "s">>
      [] name = "name" -> <<"n", "a", "m", "e">>
      [] name = "fourtytwo" -> <<"f", "o", "u", "r", "t", "y", "t", "w", "o">>
      [] name = "foo" -> <<"f", "o", "o">>
      [] name = "DoesntExist" ->
            <<"D", "o", "e", "s", "n", "t", "E", "x", "i", "s", "t">>
      [] OTHER -> <<name>>

DigitChars == <<"0", "1", "2", "3", "4", "5", "6", "7", "8", "9">>

\* a number in decimal
RECURSIVE Digits(_)
Digits(n) ==
    IF n < 10 THEN <<DigitChars[n + 1]>>
    ELSE Digits(n \div 10) \o <<DigitChars[(n % 10) + 1]>>

\* a key written with a separator after it
DisplayKey_Separated(k) ==
    CASE k.key = "Named"    -> <<".">> \o Spell(k.name) \o <<" ">>
      [] k.key = "Numbered" -> <<".">> \o Digits(k.index) \o <<" ">>
      [] k.key = "GetInt"   -> <<"[">> \o Digits(k.index) \o <<"]", " ">>
      [] k.key = "GetStr"   -> <<"[", "\"">> \o Spell(k.name) \o <<"\"", "]", " ">>
      [] k.key = "Variant"  -> <<":", ":">> \o Spell(k.name) \o <<" ">>

\* Display for Key: `.name`, `.N`, `[N]`, `["name"]`, `::Name`
DisplayKey(k) ==
    CASE k.key = "Named"    -> <<".">> \o Spell(k.name)
      [] k.key = "Numbered" -> <<".">> \o Digits(k.index)
      [] k.key = "GetInt"   -> <<"[">> \o Digits(k.index) \o <<"]">>
      [] k.key = "GetStr"   -> <<"[", "\"">> \o Spell(k.name) \o <<"\"", "]">>
      [] k.key = "Variant"  -> <<":", ":">> \o Spell(k.name)

\* Display for KeyPath: the keys one after the other
RECURSIVE Display(_)
Display(path) ==
    IF path = <<>> THEN <<>> ELSE DisplayKey(Head(path)) \o Display(Tail(path))

Punctuation == {".", "[", "]", "\"", ":", " "}

\* the characters of t before the first one in stops
RECURSIVE TakeUntil(_, _)
TakeUntil(t, stops) ==
    IF t = <<>> \/ Head(t) \in stops THEN <<>>
    ELSE <<Head(t)>> \o TakeUntil(Tail(t), stops)

IsNumber(tok) ==
    tok # <<>> /\ \A i \in 1..Len(tok) : \E d \in 1..10 : DigitChars[d] = tok[i]

RECURSIVE ToNumber(_)
ToNumber(tok) ==
    IF tok = <<>> THEN 0
    ELSE 10 * ToNumber(SubSeq(tok, 1, Len(tok) - 1))
         + ((CHOOSE d \in 1..10 : DigitChars[d] = tok[Len(tok)]) - 1)

IsName(tok) == \E n \in Names : Spell(n) = tok

ToName(tok) == CHOOSE n \in Names : Spell(n) = tok

NoKey == [some |-> FALSE, key |-> KeyFieldAt(0), rest |-> <<>>]

ParsedKey(k, rest) == [some |-> TRUE, key |-> k, rest |-> rest]

\* the key the text starts with, and the text after it
ParseKey(t) ==
    LET from(n) == SubSeq(t, n, Len(t))
    IN  CASE t[1] = "." ->
                LET tok == TakeUntil(from(2), Punctuation)
                IN  IF IsNumber(tok)
                    THEN ParsedKey(KeyFieldAt(ToNumber(tok)), from(Len(tok) + 2))
                    ELSE IF IsName(tok)
                    THEN ParsedKey(KeyField(ToName(tok)), from(Len(tok) + 2))
                    ELSE NoKey
          [] t[1] = "[" /\ Len(t) >= 2 /\ t[2] = "\"" ->
                LET tok == TakeUntil(from(3), {"\""})
                IN  IF /\ IsName(tok)
                       /\ Len(t) >= Len(tok) + 4
                       /\ t[Len(tok) + 3] = "\""
                       /\ t[Len(tok) + 4] = "]"
                    THEN ParsedKey(KeyGetStr(ToName(tok)), from(Len(tok) + 5))
                    ELSE NoKey
          [] t[1] = "[" /\ ~(Len(t) >= 2 /\ t[2] = "\"") ->
                LET tok == TakeUntil(from(2), Punctuation)
                IN  IF /\ IsNumber(tok)
                       /\ Len(t) >= Len(tok) + 2
                       /\ t[Len(tok) + 2] = "]"
                    THEN ParsedKey(KeyGetInt(ToNumber(tok)), from(Len(tok) + 3))
                    ELSE NoKey
          [] t[1] = ":" /\ Len(t) >= 2 /\ t[2] = ":" ->
                LET tok == TakeUntil(from(3), Punctuation)
                IN  IF IsName(tok)
                    THEN ParsedKey(KeyVariant(ToName(tok)), from(Len(tok) + 3))
                    ELSE NoKey
          [] OTHER -> NoKey

\* the key path a text spells, None when it spells none
RECURSIVE Parse(_)
Parse(t) ==
    IF t = <<>> THEN Some(<<>>)
    ELSE LET first == ParseKey(t)
             rest  == Parse(first.rest)
         IN  IF ~first.some THEN None
             ELSE IF ~rest.some THEN None
             ELSE Some(<<first.key>> \o rest.val)

NoValue == ScalarOf("i32", "0")

PathIdle ==
    /\ live = NoValue
    /\ liveBefore = NoValue
    /\ keyPath = <<>>
    /\ found = None
    /\ typeAt = None
    /\ assigned = NoValue
    /\ text = <<>>
    /\ parsed = None
    /\ pathOp = "idle"

PathInit ==
    /\ live \in Roots
    /\ liveBefore = live
    /\ keyPath = <<>>
    /\ found = None
    /\ typeAt = None
    /\ assigned = NoValue
    /\ text = <<>>
    /\ parsed = None
    /\ pathOp = "new"

\* KeyPath::field, ::get, ::variant: one more key on the path being built
PushKey(k) ==
    /\ keyPath' = Append(keyPath, k)
    /\ pathOp' = "push"
    /\ UNCHANGED <<live, liveBefore, found, typeAt, assigned, text, parsed>>
    /\ UNCHANGED <<graphVars, ordVars, patchVars, nodeVars>>

\* live.at(&key_path) and <T as Typed>::type_info().type_at(&key_path)
Resolve ==
    /\ found' = At(live, keyPath)
    /\ typeAt' = TypeAt(PathGraph, BuildId(live.ty), keyPath)
    /\ liveBefore' = live
    /\ pathOp' = "resolve"
    /\ UNCHANGED <<live, keyPath, assigned, text, parsed>>
    /\ UNCHANGED <<graphVars, ordVars, patchVars, nodeVars>>

\* *live.get_at_mut(&key_path).unwrap() = x, then live.at(&key_path)
Assign(x) ==
    /\ live' = SetAt(live, keyPath, x)
    /\ liveBefore' = live
    /\ assigned' = x
    /\ found' = At(SetAt(live, keyPath, x), keyPath)
    /\ pathOp' = "assign"
    /\ UNCHANGED <<keyPath, typeAt, text, parsed>>
    /\ UNCHANGED <<graphVars, ordVars, patchVars, nodeVars>>

\* key_path.to_string(), and the text parsed back
DisplayParse ==
    /\ text' = Display(keyPath)
    /\ parsed' = Parse(Display(keyPath))
    /\ pathOp' = "display"
    /\ UNCHANGED <<live, liveBefore, keyPath, found, typeAt, assigned>>
    /\ UNCHANGED <<graphVars, ordVars, patchVars, nodeVars>>

PathNext ==
    \/ /\ pathOp \in {"new", "push"}
       /\ Len(keyPath) < MaxPath
       /\ \E k \in KeysFor(live.ty) : PushKey(k)
    \/ Resolve
    \/ /\ At(live, keyPath).some
       /\ \E x \in Assignable(At(live, keyPath).val.ty) : Assign(x)
    \/ DisplayParse

(***************************************************************************)
(* Struct and struct variant nodes built from a slice of named fields      *)
(***************************************************************************)

MaxNamed == 3

\* the NamedFieldNodes the slices are made of
NamedFieldNodes ==
    {NamedFieldNodeNew(name, ty) : name \in {"a", "b"}, ty \in {"i32", "bool"}}

RECURSIVE SlicesOf(_, _)
SlicesOf(S, n) ==
    IF n = 0 THEN {<<>>}
    ELSE LET P == SlicesOf(S, n - 1)
         IN  P \cup {Append(p, x) : p \in {q \in P : Len(q) = n - 1}, x \in S}

\* the &[NamedFieldNode] handed to new
FieldSlices == SlicesOf(NamedFieldNodes, MaxNamed)

NoNode == [field_names |-> <<>>, fields |-> <<>>]

NodeIdle ==
    /\ slice = <<>>
    /\ built = [kind |-> "none", node |-> NoNode]

\* StructNode::new::<T>(fields, metadata, docs)
NewStructNode(fields) ==
    /\ slice' = fields
    /\ built' = [kind |-> "StructNode", node |-> StructNodeNew("T", fields)]
    /\ UNCHANGED <<graphVars, ordVars, patchVars, pathVars>>

\* StructVariantNode::new(name, fields, metadata, docs)
NewStructVariantNode(fields) ==
    /\ slice' = fields
    /\ built' = [kind |-> "StructVariantNode",
                 node |-> StructVariantNodeNew("V", fields)]
    /\ UNCHANGED <<graphVars, ordVars, patchVars, pathVars>>

NodeNext ==
    \/ \E fields \in FieldSlices : NewStructNode(fields)
    \/ \E fields \in FieldSlices : NewStructVariantNode(fields)

Init == GraphInit /\ OrdIdle /\ PatchIdle /\ PathIdle /\ NodeIdle

Next == GraphNext /\ UNCHANGED <<ordVars, patchVars, pathVars, nodeVars>>

Spec == Init /\ [][Next]_vars

InitOrd == GraphIdle /\ OrdIdle /\ PatchIdle /\ PathIdle /\ NodeIdle

SpecOrd == InitOrd /\ [][OrdNext]_vars

InitPatch == GraphIdle /\ OrdIdle /\ PatchInit /\ PathIdle /\ NodeIdle

SpecPatch == InitPatch /\ [][PatchNext]_vars

InitPath == GraphIdle /\ OrdIdle /\ PatchIdle /\ PathInit /\ NodeIdle

SpecPath == InitPath /\ [][PathNext]_vars

InitNode == GraphIdle /\ OrdIdle /\ PatchIdle /\ PathIdle /\ NodeIdle

SpecNode == InitNode /\ [][NodeNext]_vars

\* Box<T>: type graphs are built, or a boxed value is reflected. The graph
\* and the values share no state, so a behaviour does one or the other.
BoxInit ==
    \/ GraphInit /\ PatchIdle
    \/ GraphIdle /\ PatchInit /\ target.dty \in BoxTys

BoxNext ==
    \/ op = "idle" /\ GraphNext /\ UNCHANGED <<ordVars, patchVars, pathVars, nodeVars>>
    \/ op # "idle" /\ PatchNext

InitBox == BoxInit /\ OrdIdle /\ PathIdle /\ NodeIdle

SpecBox == InitBox /\ [][BoxNext]_vars


(***************************************************************************)
(* Type graph: the claims.                                                 *)
(***************************************************************************)

\* a step in which get_or_build_node_with is called
IsCall == (\E t \in Types : BuildRoot(t)) \/ BuildField

\* the id the call of that step returns at once reaches its caller
Delivered(id) ==
    /\ stack' = Deliver(stack, id)
    /\ stack = <<>> => ret' = id

Entries == {i \in NodeIds : map[i].st # "Absent"}

\* the types build is called on, directly, by the closure of t
Targets(t) == {BoxBuildTarget(Children(t)[k]) : k \in 1..Len(Children(t))}

RECURSIVE ReachSet(_)
ReachSet(S) ==
    LET N == S \cup UNION {Targets(t) : t \in S}
    IN  IF N = S THEN S ELSE ReachSet(N)

\* the types a build of t0 describes
Reach(t0) == ReachSet({BoxBuildTarget(t0)})

RECURSIVE SumSteps(_)
SumSteps(S) ==
    IF S = {} THEN 0
    ELSE LET t == CHOOSE x \in S : TRUE
         IN  Len(Children(t)) + 1 + SumSteps(S \ {t})

\* one step per field, element, key or value and one per closure return
StepBound(t0) == SumSteps(Reach(t0))

DistinctIds(S) == \A t, u \in S : NodeIdNew(t) = NodeIdNew(u) => t = u

OneEntryPerType(S) ==
    /\ Cardinality(Entries) = Cardinality(S)
    /\ \A t \in S : /\ map[NodeIdNew(t)].st = "Resolved"
                    /\ map[NodeIdNew(t)].type_name = t

\* C1: once a call of get_or_build_node_with for a type has returned on a
\* graph, every later call for that type returns the same NodeId at once,
\* runs no builder closure and leaves the map as it was.
BuildIdempotent ==
    [][(IsCall /\ lastCall'.known) =>
          /\ lastCall'.id = returned[lastCall'.ty]
          /\ Delivered(lastCall'.id)
          /\ ran' = ran
          /\ map' = map]_vars

C1_Witness ==
    /\ lastCall.known
    /\ lastCall.hit
    /\ map[lastCall.id].st = "Resolved"
    /\ ret = lastCall.id

AppendOnly ==
    [][\A i \in NodeIds :
          /\ map[i].st = "Absent"   => map'[i].st \in {"Absent", "Reserved"}
          /\ map[i].st = "Reserved" => map'[i].st \in {"Reserved", "Resolved"}
          /\ map[i].st = "Resolved" => map'[i] = map[i]]_vars

C3_Witness ==
    /\ ~fresh
    /\ Len(stack) >= 2
    /\ \E i \in NodeIds : map[i].st = "Resolved" /\ owner[i] \notin Reach(root)

\* the call of this step finds the entry of its NodeId inserted for another type
CollisionCall ==
    /\ IsCall
    /\ owner[lastCall'.id] \notin {"", lastCall'.ty}

\* C4 (as stated): a call for a type whose NodeId is held by the entry of
\* another type aborts.
CollisionPanics == [][CollisionCall => panicked']_vars

\* C4 (amended): such a call does not abort: it returns the shared NodeId at
\* once, runs no builder and leaves the entry describing the first type.
CollisionUndetected ==
    [][CollisionCall =>
          /\ ~panicked'
          /\ Delivered(lastCall'.id)
          /\ ran' = ran
          /\ map' = map
          /\ owner'[lastCall'.id] # lastCall'.ty]_vars

C4_Witness ==
    /\ lastCall.hit
    /\ owner[lastCall.id] \notin {"", lastCall.ty}
    /\ map[lastCall.id].st = "Resolved"
    /\ map[lastCall.id].type_name # lastCall.ty
    /\ ret = lastCall.id

(***************************************************************************)
(* Value ordering: the claims.                                             *)
(***************************************************************************)

\* C5: == and cmp of Value form a strict total order: exactly one of a < b,
\* a == b, a > b holds, == holds exactly when cmp is Equal, cmp(a, b) is the
\* reverse of cmp(b, a), and a < b with b < c gives a < c; NaN payloads at any
\* depth included.
ValueTotalOrder ==
    out.done =>
        /\ Cardinality({p \in {"lt", "eq", "gt"} : out[p]}) = 1
        /\ out.eq <=> (out.ab = Equal)
        /\ out.ab = 0 - out.ba
        /\ (out.ab = Less /\ out.bc = Less) => out.ac = Less

C5_Witness ==
    /\ out.done
    /\ va.kind = "f32" /\ va.val.nan
    /\ vb.kind = "List" /\ vc.kind = "List"
    /\ Len(vb.val) = 1 /\ Len(vc.val) = 1
    /\ vb.val[1].kind = "List" /\ vc.val[1].kind = "List"
    /\ vb.val[1].val[1].val = NaNa /\ vc.val[1].val[1].val = NaNb
    /\ out.ab = Less /\ out.bc = Equal /\ out.ac = Less

\* the kind order the claim states
ClaimedKindOrder ==
    <<"usize", "u8", "u16", "u32", "u64", "u128",
      "i8", "i16", "i32", "i64", "i128",
      "bool", "char", "f32", "f64", "String",
      "StructValue", "EnumValue", "TupleStructValue", "TupleValue",
      "List", "Map">>

ClaimedRank == VariantIndex(ClaimedKindOrder)

\* C6: Values of different kinds are never equal and are ordered by the fixed
\* kind order alone; Values of the same kind are ordered by their payloads.
KindFirst ==
    out.done =>
        /\ va.kind # vb.kind =>
              /\ ~out.eq
              /\ out.ab = IntCmp(ClaimedRank[va.kind], ClaimedRank[vb.kind])
        /\ va.kind = vb.kind =>
              /\ out.ab = PayloadCmp(va, vb)
              /\ out.eq = PayloadEq(va, vb)
              /\ va.kind \in IntKinds => out.ab = IntCmp(va.val, vb.val)

C6_Witness ==
    /\ out.done
    /\ va.kind = "EnumValue" /\ Len(va.val.fields) = 1
    /\ vb.kind = "TupleStructValue" /\ vb.val = Tsv(<<>>)
    /\ out.ab = Less
    /\ vc.kind = "usize" /\ vc.val = 1
    /\ out.bc = Greater

(***************************************************************************)
(* to_value, from_reflect and patch                                        *)
(***************************************************************************)
\* == of the type named ty: Value's, the derived one of TupleStructValue and
\* TupleValue over their Values, Box<T>'s is T's
SameAs(ty, a, b) ==
    CASE ty = "Value" -> ValueEq(a, b)
      [] ty = "TupleStructValue" ->
            ValueEq(Val("TupleStructValue", a), Val("TupleStructValue", b))
      [] ty = "TupleValue" ->
            ValueEq(Val("TupleValue", a), Val("TupleValue", b))
      [] ty = "Box<Value>" -> ValueEq(a.boxed, b.boxed)
      [] ty = "Box<TupleStructValue>" ->
            ValueEq(Val("TupleStructValue", a.boxed),
                    Val("TupleStructValue", b.boxed))
      [] OTHER -> a = b

\* the fields of a tuple or tuple-struct, as Values
FieldValues(d) ==
    [i \in 1..Len(ReflectRef(d).fields) |-> ToValue(ReflectRef(d).fields[i])]

IsTuple(d) == ReflectRef(d).variant = "Tuple"

IsTupleStruct(d) == ReflectRef(d).variant = "TupleStruct"

FieldCount(v) ==
    CASE v.kind = "TupleStructValue" -> Len(v.val.tuple.fields)
      [] v.kind = "TupleValue"       -> Len(v.val.fields)
      [] v.kind = "List"             -> Len(v.val)
      [] OTHER                       -> 0

\* C7: from_reflect of the to_value of a TupleStructValue, a Value or a Box
\* of either returns Some of a value equal to the one it started from.
RoundTripRestores ==
    op = "round_trip" =>
        /\ res.some
        /\ SameAs(target.dty, res.val, target.obj)

C7_Witness ==
    /\ op = "round_trip"
    /\ target.dty = "Box<TupleStructValue>"
    /\ Len(target.obj.boxed.tuple.fields) = 2
    /\ target.obj.boxed.tuple.fields[1].kind = "TupleStructValue"
    /\ target.obj.boxed.tuple.fields[2].kind = "bool"
    /\ res.some
    /\ res.val = target.obj

PartialTuplePatch ==
    /\ op = "patch"
    /\ IsTuple(before)
    /\ IsTuple(arg)
    /\ Len(FieldValues(arg)) < Len(FieldValues(before))

TupleStructPatch == op = "patch" /\ IsTupleStruct(before)

\* C10: TupleStructValue::patch never changes the number of fields; the
\* fields at indices the patch does not have are unchanged; and when the
\* patch is not a tuple-struct the value is left as it was.
PatchShapeTolerant ==
    TupleStructPatch =>
        /\ IsTupleStruct(target)
        /\ Len(FieldValues(target)) = Len(FieldValues(before))
        /\ ~IsTupleStruct(arg) => SameAs(target.dty, target.obj, before.obj)
        /\ IsTupleStruct(arg) =>
              \A i \in 1..Len(FieldValues(before)) :
                  i > Len(FieldValues(arg)) =>
                      ValueEq(FieldValues(target)[i], FieldValues(before)[i])

C10_Witness ==
    /\ TupleStructPatch
    /\ before = Dyn("TupleStructValue", Tsv(<<Val("i32", 1), Val("bool", FALSE)>>))
    /\ IsTupleStruct(arg)
    /\ Len(FieldValues(arg)) = 3
    /\ target = Dyn("TupleStructValue", Tsv(<<Val("i32", 42), Val("bool", TRUE)>>))

\* C11: TupleStructValue::from_reflect returns Some for every tuple-struct and
\* None for a value of any other reflect kind; Box<T>::from_reflect returns
\* None exactly when T::from_reflect does.
ShapeMismatchIsNone ==
    op = "from_reflect" =>
        /\ target.dty = "TupleStructValue" =>
              /\ res.some = IsTupleStruct(arg)
              /\ res.some => Len(res.val.tuple.fields) = Len(FieldValues(arg))
        /\ target.dty = "Box<TupleStructValue>" =>
              /\ res.some = IsTupleStruct(arg)
              /\ res.some = TupleStructValueFromReflect(arg).some
        /\ target.dty = "Box<Value>" =>
              /\ res.some
              /\ res.some = ValueFromReflect(arg).some

C11_Witness ==
    /\ op = "from_reflect"
    /\ target.dty = "Box<TupleStructValue>"
    /\ arg.dty = "Value"
    /\ arg.obj.kind = "TupleValue"
    /\ Len(arg.obj.val.fields) = 2
    /\ ~res.some

(***************************************************************************)
(* Key paths                                                               *)
(***************************************************************************)
\* the value reached after the first n keys of path, when none of them fails
RECURSIVE ValueAfter(_, _, _)
ValueAfter(v, path, n) ==
    IF n = 0 THEN v ELSE AtKey(ValueAfter(v, path, n - 1), path[n]).val

\* the first key of path that fails from n on, 0 when none does
RECURSIVE FirstFailureFrom(_, _, _)
FirstFailureFrom(v, path, n) ==
    IF n > Len(path) THEN 0
    ELSE IF ~AtKey(v, path[n]).some THEN n
    ELSE FirstFailureFrom(AtKey(v, path[n]).val, path, n + 1)

FirstFailure(v, path) == FirstFailureFrom(v, path, 1)

\* the name of the type a result of the type resolver designates
TypeNameAt(t) == PathGraph[t.id].type_name

\* every field key applied to an enum directly follows a selector, and no
\* selector directly follows a selector
RECURSIVE SelectorsInPlace(_, _, _)
SelectorsInPlace(v, path, selected) ==
    IF path = <<>> THEN TRUE
    ELSE /\ v.shape = "Enum" /\ Head(path).key \in {"Named", "Numbered"} => selected
         /\ Head(path).key = "Variant" => ~selected
         /\ AtKey(v, Head(path)).some =>
               SelectorsInPlace(AtKey(v, Head(path)).val, Tail(path),
                                Head(path).key = "Variant")

EndsWithSelector(path) == path # <<>> /\ path[Len(path)].key = "Variant"

ShortCircuit ==
    pathOp = "resolve" =>
        /\ keyPath = <<>> => found = Some(live)
        /\ IF FirstFailure(live, keyPath) = 0
           THEN found = Some(ValueAfter(live, keyPath, Len(keyPath)))
           ELSE found = None
        /\ live = ValueA /\ keyPath = <<KeyField("e"), KeyGetInt(0)>> =>
              found = Some(ScalarOf("f32", "1.0"))

C13_Witness ==
    /\ pathOp = "resolve"
    /\ live = ValueA
    /\ keyPath = <<KeyField("e"), KeyGetInt(3), KeyField("a")>>
    /\ FirstFailure(live, keyPath) = 2
    /\ found = None

\* C14: a selector does not descend into the value: when it names the active
\* variant the value after it is the enum itself and the keys after it
\* address that variant's fields; when it does not, the path resolves to
\* None, also when the selector is its last key.
SelectorOnValues ==
    pathOp = "resolve" =>
        /\ \A n \in 1..Len(keyPath) :
              /\ keyPath[n].key = "Variant"
              /\ FirstFailure(live, SubSeq(keyPath, 1, n - 1)) = 0
              => LET w == ValueAfter(live, keyPath, n - 1)
                 IN  IF w.shape = "Enum" /\ w.variant = keyPath[n].name
                     THEN /\ FirstFailure(live, SubSeq(keyPath, 1, n)) = 0
                          /\ ValueAfter(live, keyPath, n) = w
                     ELSE found = None
        /\ live = ValueA
           /\ keyPath = <<KeyField("c"), KeyVariant("C"), KeyField("d")>> =>
              found = Some(ScalarOf("String", "foo"))

C14_Witness ==
    /\ pathOp = "resolve"
    /\ live = ValueA
    /\ keyPath = <<KeyField("c"), KeyVariant("DoesntExist")>>
    /\ found = None

\* p is q or the start of q
IsPrefix(p, q) == Len(p) <= Len(q) /\ SubSeq(q, 1, Len(p)) = p

RECURSIVE SeqsOver(_, _)
SeqsOver(S, n) ==
    IF n = 0 THEN {<<>>}
    ELSE SeqsOver(S, n - 1)
         \cup {Append(q, k) : q \in SeqsOver(S, n - 1), k \in S}

\* the path without its selectors
RECURSIVE WithoutSelectors(_)
WithoutSelectors(path) ==
    IF path = <<>> THEN <<>>
    ELSE IF Head(path).key = "Variant" THEN WithoutSelectors(Tail(path))
    ELSE <<Head(path)>> \o WithoutSelectors(Tail(path))

FooFieldType(V, k) ==
    CASE V = "A" /\ k = KeyField("a") -> Some(TypeAtType(BuildId("String")))
      [] V = "B" /\ k = KeyFieldAt(0) -> Some(TypeAtType(BuildId("i32")))
      [] OTHER                        -> None

\* C16: on an enum type, `::V.f` is the type of the named field f of the
\* struct variant V, `::V.N` the type of the positional field N of the tuple
\* variant V, `::V[N]` is None, and a path ending in `::V` is the variant
\* named V.
TypeAtOnEnums ==
    pathOp = "resolve" /\ live.ty = "Foo" /\ keyPath # <<>>
    /\ keyPath[1].key = "Variant" =>
        /\ Len(keyPath) = 1 =>
              /\ typeAt.some
              /\ typeAt.val.at = "Variant"
              /\ typeAt.val.variant.name = keyPath[1].name
              /\ typeAt.val.variant.variant =
                    (CASE keyPath[1].name = "A" -> "Struct"
                       [] keyPath[1].name = "B" -> "Tuple"
                       [] keyPath[1].name = "C" -> "Unit")
        /\ Len(keyPath) = 2 =>
              typeAt = FooFieldType(keyPath[1].name, keyPath[2])
        /\ Len(keyPath) = 2 /\ keyPath[2].key \in {"GetInt", "GetStr"} =>
              typeAt = None

C16_Witness ==
    /\ pathOp = "resolve"
    /\ live.ty = "Foo"
    /\ keyPath = <<KeyVariant("A"), KeyField("a")>>
    /\ typeAt = Some(TypeAtType(BuildId("String")))
    /\ TypeAt(PathGraph, BuildId("Foo"), <<KeyVariant("B"), KeyGetInt(0)>>) = None

\* the element type of the lists and arrays of the tests, by their declaration
ElementType(ty) ==
    CASE ty = "Vec<f32>"     -> "f32"
      [] ty = "Vec<Country>" -> "Country"
      [] ty = "[f32; 2]"     -> "f32"

IsListType(t) ==
    t.some /\ t.val.at = "Type" /\ PathGraph[t.val.id].node \in {"List", "Array"}

\* C17: on a List or Array node an index `[i]` is the element type for every
\* number i and None for an index that is not a number; the rest of the path
\* is resolved from the element type.
TypeAtOnLists ==
    pathOp = "resolve" =>
        \A n \in 1..Len(keyPath) :
            LET t == TypeAt(PathGraph, BuildId(live.ty), SubSeq(keyPath, 1, n - 1))
                elem == BuildId(ElementType(TypeNameAt(t.val)))
            IN  IsListType(t) =>
                    /\ keyPath[n].key = "GetInt" =>
                          /\ TypeAt(PathGraph, BuildId(live.ty), SubSeq(keyPath, 1, n))
                                = Some(TypeAtType(elem))
                          /\ typeAt = TypeAt(PathGraph, elem,
                                             SubSeq(keyPath, n + 1, Len(keyPath)))
                    /\ keyPath[n].key # "GetInt" => typeAt = None

C17_Witness ==
    /\ pathOp = "resolve"
    /\ live = ValueCompany
    /\ keyPath = <<KeyField("countries"), KeyGetInt(1), KeyField("name")>>
    /\ typeAt = Some(TypeAtType(BuildId("String")))
    /\ found = None

\* display: key_path!(.a.0.b.c[1]["foo"]::D.e[3])
DisplayTestPath ==
    <<KeyField("a"), KeyFieldAt(0), KeyField("b"), KeyField("c"), KeyGetInt(1),
      KeyGetStr("foo"), KeyVariant("D"), KeyField("e"), KeyGetInt(3)>>

DisplayTestText ==
    <<".", "a", ".", "0", ".", "b", ".", "c", "[", "1", "]",
      "[", "\"", "f", "o", "o", "\"", "]", ":", ":", "D", ".", "e", "[", "3", "]">>

\* key_path.to_string() of the test's path, and its text parsed
DisplayTestDisplayed == Display(DisplayTestPath)

DisplayTestParsed == Parse(DisplayTestText)

\* the number of characters of the keys of a path
RECURSIVE KeysLen(_)
KeysLen(path) ==
    IF path = <<>> THEN 0 ELSE Len(DisplayKey(Head(path))) + KeysLen(Tail(path))

\* C18: the text of a key path is its keys in canonical form one after the
\* other with no separator, and parsing the text gives the path back.
DisplayRoundTrip ==
    /\ DisplayTestDisplayed = DisplayTestText
    /\ DisplayTestParsed = Some(DisplayTestPath)
    /\ pathOp = "display" =>
          /\ Len(text) = KeysLen(keyPath)
          /\ \A i \in 1..Len(text) : text[i] # " "
          /\ keyPath # <<>> =>
                text = DisplayKey(keyPath[1]) \o Display(Tail(keyPath))
          /\ parsed = Some(keyPath)

C18_Witness ==
    /\ pathOp = "display"
    /\ keyPath = <<KeyField("d"), KeyGetStr("fourtytwo"), KeyVariant("C")>>
    /\ Len(text) = 18
    /\ parsed = Some(keyPath)

(***************************************************************************)
(* Named fields: the ordered view and the name-keyed view                  *)
(***************************************************************************)

\* the names of the slice's fields, in input order
InputNames == [i \in 1..Len(slice) |-> slice[i].name]

\* C19: for every StructNode and StructVariantNode built by new from a field
\* list, field_names holds the fields' names in input order, the name-keyed
\* map has exactly the same set of names, each name mapped to the field of
\* that name, and the two views have the same number of entries.
NamedViewsConsistent ==
    built.kind \in {"StructNode", "StructVariantNode"} =>
        /\ built.node.field_names = InputNames
        /\ DOMAIN built.node.fields = {slice[i].name : i \in 1..Len(slice)}
        /\ \A i \in 1..Len(slice) : built.node.fields[slice[i].name] = slice[i]
        /\ Cardinality(DOMAIN built.node.fields) = Len(built.node.field_names)

(***************************************************************************)
(* Re-entrant builds                                                       *)
(***************************************************************************)

RECURSIVE SumRan(_)
SumRan(S) ==
    IF S = {} THEN 0
    ELSE LET t == CHOOSE x \in S : TRUE
         IN  ran[t] + SumRan(S \ {t})

\* how many times a builder closure was run for that NodeId
RunsOf(id) == SumRan({t \in Types : NodeIdNew(t) = id})

\* the call of this step is for a NodeId whose entry is reserved
ReentrantCall == IsCall /\ map[lastCall'.id].st = "Reserved"

\* C20: a call of get_or_build_node_with for a NodeId whose entry is reserved
\* returns that NodeId at once, runs no builder and leaves the graph as it
\* was; the builder closure of a NodeId is run at most once in a graph; and
\* while a closure runs (and recurses into the field types) the entry of its
\* NodeId is reserved.
ReentrantBuild ==
    /\ [][ReentrantCall =>
             /\ Delivered(lastCall'.id)
             /\ ran' = ran
             /\ map' = map
             /\ owner' = owner]_vars
    /\ [](\A i \in NodeIds : RunsOf(i) <= 1)
    /\ [](\A k \in 1..Len(stack) : map[stack[k].id].st = "Reserved")

C20_Witness ==
    /\ Len(stack) >= 2
    /\ lastCall.hit
    /\ lastCall.id = stack[1].id
    /\ map[lastCall.id].st = "Reserved"
    /\ stack[Len(stack)].ids # <<>>
    /\ stack[Len(stack)].ids[Len(stack[Len(stack)].ids)] = lastCall.id
    /\ RunsOf(lastCall.id) = 1

(***************************************************************************)
(* Completed graphs                                                        *)
(***************************************************************************)

\* the NodeIds stored in the nodes of the graph: field ids, list and array
\* element ids, map key and value ids
StoredIds ==
    UNION {{map[i].ids[k] : k \in 1..Len(map[i].ids)} : i \in NodeIds}

\* the NodeIds a caller can obtain from the graph: the id the outermost build
\* returned and the ids stored in its nodes
ObtainedIds == (IF ret = 0 THEN {} ELSE {ret}) \cup StoredIds

\* C21: when an outermost build has returned, no entry is reserved, every
\* NodeId stored in a node and the returned root id designate a resolved
\* entry, and TypeGraph::get of such an id does not hit its expect(ERROR).
CompletedGraphClosed ==
    /\ [](stack = <<>> =>
            /\ \A i \in NodeIds : map[i].st # "Reserved"
            /\ \A i \in ObtainedIds : map[i].st = "Resolved")
    /\ [][\A i \in ObtainedIds : Get(i) => ~panicked']_vars

C21_Witness ==
    /\ stack = <<>>
    /\ ~panicked
    /\ root = "Map<String,Node>"
    /\ ret = NodeIdNew("Map<String,Node>")
    /\ map[ret].ids = <<NodeIdNew("String"), NodeIdNew("Node")>>
    /\ map[NodeIdNew("Node")].ids = <<NodeIdNew("i32"), NodeIdNew("Node")>>
    /\ map[NodeIdNew("[i32; 2]")].ids = <<NodeIdNew("i32")>>
    /\ map[NodeIdNew("Vec<Tree>")].ids = <<NodeIdNew("Tree")>>
    /\ StoredIds # {}

(***************************************************************************)
(* Box<T>                                                                  *)
(***************************************************************************)

\* the T of a Box<T> of the type graph
InnerType(b) == Children(b)[1]

\* the T behind a &dyn Reflect that is a Box<T>
InnerOf(d) == Dyn(BoxInner(d.dty), d.obj.boxed)

\* C22: building Box<T> is building T: the call returns T's NodeId, acts on
\* the graph as the call for T does and no entry is ever added for Box<T>;
\* to_value, reflect_ref, reflect_mut, clone_reflect and as_any of a Box<T>
\* give what they give on the inner T, and patch changes the Box<T> as it
\* changes the inner T.
BoxTransparent ==
    /\ [][\A b \in BoxTypes : BuildRoot(b) => CallBuild(InnerType(b), stack)]_vars
    /\ [](\A b \in BoxTypes : map[NodeIdNew(b)].st = "Absent")
    /\ []((stack = <<>> /\ root \in BoxTypes) =>
            /\ ret = NodeIdNew(InnerType(root))
            /\ returned[InnerType(root)] = ret
            /\ map[ret].st = "Resolved"
            /\ (fresh /\ DistinctIds(Reach(InnerType(root))))
                  => OneEntryPerType(Reach(InnerType(root))))
    /\ [](target.dty \in BoxTys =>
            /\ ToValue(target) = ToValue(InnerOf(target))
            /\ ReflectRef(target) = ReflectRef(InnerOf(target))
            /\ ReflectMut(target) = ReflectMut(InnerOf(target))
            /\ CloneReflect(target) = CloneReflect(InnerOf(target))
            /\ AsAny(target) = AsAny(InnerOf(target)))
    /\ []((op \in {"patch", "patch_own"} /\ before.dty \in BoxTys) =>
            /\ target.dty = before.dty
            /\ InnerOf(target) = Patch(InnerOf(before), arg))

C22_Witness ==
    /\ stack = <<>>
    /\ root = "Box<A>"
    /\ fresh
    /\ ret = NodeIdNew("A")
    /\ map[NodeIdNew("A")].ids = <<NodeIdNew("B"), NodeIdNew("String")>>
    /\ map[NodeIdNew("B")].ids[1] = NodeIdNew("A")
    /\ map[NodeIdNew("Box<A>")].st = "Absent"
    /\ map[NodeIdNew("Box<B>")].st = "Absent"
    /\ ran["Box<A>"] = 0

====
